---- MODULE Spec2Model ----
(***************************************************************************)
(* Model of the media bridge of vladimir-chernikin/sip2:                   *)
(*   src/media_sockets/main.py            RTP demultiplexer, registrar,    *)
(*                                        UdpSession, paced sender         *)
(*   src/media_sockets/src/jitter_buffer.py   JitterBuffer, OutputBuffer   *)
(*   src/media_sockets/src/audio_websocket_client.py   dialog client       *)
(*   src/media_sockets/src/audio_handler.py   playback                     *)
(*   src/media_sockets/src/utils.py           resampling                   *)
(*   src/backend/app/ari_client.py            call-control adapter         *)
(*                                                                         *)
(* The specifications share the variables:                                 *)
(*   Spec     the demultiplexer and the HTTP registrar as main() runs them *)
(*   SpecAri  the call-control adapter as AriWsHandler.run runs it         *)
(*   SpecTx, SpecDlg, SpecJb, SpecPlay, SpecBurst, SpecEv, SpecConv,       *)
(*   SpecOvf, SpecUnreg, SpecHo, SpecPace                                  *)
(*            the components of one session, each driven on its own        *)
(*                                                                         *)
(* In main.py the block of lines 290-328 (write_queue, AudioHandler,       *)
(* AudioWebSocketClient, JitterBuffer, the priming sendto, the two         *)
(* create_task calls) is indented under _close_conversation_log, not under *)
(* UdpSession.__init__.  Constructing a session therefore starts no task   *)
(* and sends nothing, and cleanup() raises when it reaches line 301        *)
(* (AudioWebSocketClient.__init__ has no user_transcript_callback          *)
(* parameter).  Spec models exactly that.  The component specifications    *)
(* model the components themselves, invoked the way lines 290-328 invoke   *)
(* them.                                                                   *)
(***************************************************************************)
EXTENDS Integers, Sequences, FiniteSets, TLC

VARIABLES
    sessions,       \* AudioSocketUdpProtocol.sessions: dict addr -> UdpSession
    uuid_mapping,   \* AudioSocketUdpProtocol.uuid_mapping: dict addr -> str
    wire,           \* every transport.sendto(packet, addr), in order
    nobj,           \* number of UdpSession objects constructed so far
    alive,          \* sessions constructed and not yet removed by /unregister
    reg,            \* per address: id of the latest /register not unregistered since
    http,           \* the last HTTP exchange of the registrar
    rx,             \* the last datagram handled by datagram_received
    write_queue,    \* the asyncio.Queue between send_pcm and write_loop
    wl,             \* write_loop: program position and the packet it has built
    ob,             \* OutputBuffer: buffer, running, output task, accumulator
    fl,             \* running OutputBuffer.flush() coroutines: their accumulators
    nchunks,        \* number of add_chunk calls so far
    dlg,            \* AudioWebSocketClient and AudioHandler: the dialog fields
    jb,             \* JitterBuffer: its fields and the frames it has delivered
    jt,             \* the flush() coroutines of the JitterBuffer and UdpSession.cleanup
    conv,           \* a call of AudioConverter.resample_audio: arguments and result
    ur,             \* a POST /unregister whose cleanup() is suspended at an await
    ho,             \* the handle_incoming_payload tasks of one session
    tm,             \* the clock of the event loop and the send times of write_loop
    ari             \* the call-control adapter (AriWsHandler) and the PBX's bridges

vars == <<sessions, uuid_mapping, wire, nobj, alive, reg, http, rx,
          write_queue, wl, ob, fl, nchunks, dlg, jb, jt, conv, ur, ho, tm, ari>>

regVars == <<sessions, uuid_mapping, wire, nobj, alive, reg, http, rx>>
txVars  == <<write_queue, wl, ob, fl, nchunks>>
dlgVars == <<dlg>>
jbVars  == <<jb, jt>>
convVars == <<conv>>
urVars == <<ur>>
hoVars == <<ho>>
tmVars == <<tm>>
ariVars == <<ari>>

----------------------------------------------------------------------------
(* Bounds of the model *)

MaxObjs == 2        \* UdpSession objects constructed in one run

MaxChunks == 3      \* OutputBuffer.add_chunk calls in one run
MaxAudioQueue == 2  \* chunks waiting in AudioHandler.audio_queue
MaxFrames == 5      \* JitterBuffer.add_frame calls in one run
MaxPcmQueue == 2    \* maxsize of AudioWebSocketClient.pcm_queue (200 in the source)
MaxPlayChunks == 2  \* chunks the playback loop hands to the OutputBuffer in one run
MaxDatagrams == 4       \* datagrams of one session handed over
MaxTime == 40           \* the clock stops here, in milliseconds
MaxCalls == 3           \* calls the adapter is told of
MaxPcmBytes == 30    \* longest input of a resample_audio call, in bytes

(* Program constants *)

RTP_FRAME_SIZE == 320            \* 20 ms of PCM16 at 8 kHz
OUTPUT_BUFFER_MAX_FRAMES == 2    \* env OUTPUT_BUFFER_MAX_FRAMES (default 200)
DEFAULT_SAMPLE_WIDTH == 2
DEFAULT_PT == 8                  \* write_loop's payload type before the latch
DEFAULT_SSRC == 305419896        \* 0x12345678
BARGE_IN_FRAMES_THRESHOLD == 2
JITTER_BUFFER_MAX_FRAMES == 3    \* env JITTER_BUFFER_MAX_FRAMES (default 200)
JITTER_BUFFER_TARGET_MS == 40
MIN_OPENAI_INPUT_CHUNK == 1440
DRAIN_CHUNK_SIZE == 960
RTP_PACKET_INTERVAL == 20      \* milliseconds (0.020 s)
DEFAULT_SAMPLE_RATE == 8000
OPENAI_INPUT_RATE == 24000
OPENAI_OUTPUT_RATE == 24000

(* Values *)

None == -1          \* Python None in an integer field (inbound_pt, ssrc)
NoUuid == ""        \* a falsy session_uuid: None or the empty string

Addrs == { <<"127.0.0.1", 5000>>, <<"10.0.0.5", 4000>> }
RegIds == { "A", "B" }
GenIds == << "g1", "g2", "g3", "g4", "g5", "g6" >>   \* str(uuid.uuid4()), one per object

Ts(hi, lo) == [hi |-> hi, lo |-> lo]     \* a u32 as two 16-bit halves

\* (ts + n) & 0xFFFFFFFF
TsAdd(ts, n) ==
    LET lo == ts.lo + n
    IN  [hi |-> (ts.hi + (lo \div 65536)) % 65536, lo |-> lo % 65536]

\* struct.unpack of a 12-byte header: the fields datagram_received reads
Headers ==
    { [pt |-> 8, seq |-> 1000,  ts |-> Ts(0, 8000),      ssrc |-> 43690],
      [pt |-> 0, seq |-> 65530, ts |-> Ts(65535, 65500), ssrc |-> 48059] }

\* A datagram: its length, whether it starts with b"TEST-UDP-SELF", its
\* version bits and, when it is long enough, its header fields.
Datagrams ==
    { [len |-> 172, selftest |-> FALSE, version |-> 2, hdr |-> h] : h \in Headers }
    \cup { [len |-> 13, selftest |-> TRUE, version |-> 1, hdr |-> h] : h \in {CHOOSE h \in Headers : h.pt = 8} }
    \cup { [len |-> 8,  selftest |-> FALSE, version |-> 2, hdr |-> h] : h \in {CHOOSE h \in Headers : h.pt = 8} }
    \cup { [len |-> 172, selftest |-> FALSE, version |-> 1, hdr |-> h] : h \in {CHOOSE h \in Headers : h.pt = 8} }

NoHttp == [op |-> "none", status |-> 0, addr |-> <<"", 0>>, uuid |-> NoUuid,
           removed_count |-> 0, existed |-> FALSE, found |-> 0]
NoPkt  == [to |-> <<"", 0>>, len |-> 0, seq |-> 0, ts |-> Ts(0, 0), pt |-> 0,
           ssrc |-> 0, by |-> "none"]
NoRx   == [addr |-> <<"", 0>>, hdr |-> CHOOSE h \in Headers : h.pt = 8,
           sid |-> 0, uuid |-> NoUuid, created |-> FALSE, reg |-> NoUuid,
           pt |-> None, outcome |-> "none"]

----------------------------------------------------------------------------
(* UdpSession *)

\* UdpSession.__init__: the fields set at construction.  Nothing else is
\* created and nothing is sent (see the module comment).
UdpSession(id, addr, session_uuid) ==
    [ id           |-> id,
      addr         |-> addr,
      session_uuid |-> IF session_uuid # NoUuid THEN session_uuid ELSE GenIds[id],
      inbound_pt   |-> None,
      ssrc         |-> None,
      seq_out      |-> 0,
      ts_out       |-> Ts(0, 0),
      log_open     |-> TRUE,
      audio_handler |-> FALSE ]

\* UdpSession._close_conversation_log: closes the log, then runs lines
\* 290-328.  AudioHandler is constructed (line 297); the AudioWebSocketClient
\* call of line 301 raises TypeError, so the sendto of line 318 and the
\* create_task calls of lines 325-328 are never reached.
close_conversation_log(s) ==
    [ session |-> [s EXCEPT !.log_open = FALSE, !.audio_handler = TRUE],
      raised  |-> TRUE,
      sent    |-> << >> ]

\* UdpSession.cleanup: the exception of _close_conversation_log propagates
\* before the uuid_mapping entry is deleted (lines 381-382) and before any
\* await.  Result: the session afterwards, whether cleanup raised, whether
\* it deleted the mapping entry.
cleanup(s) ==
    LET c == close_conversation_log(s)
    IN  [ session |-> c.session,
          raised  |-> c.raised,
          unmapped |-> ~c.raised,
          sent    |-> c.sent ]

----------------------------------------------------------------------------
(* Session Registrar *)

RegState == [sessions |-> sessions, uuid_mapping |-> uuid_mapping,
             wire |-> wire, nobj |-> nobj, alive |-> alive]

DictSet(d, k, v) == [x \in DOMAIN d \cup {k} |-> IF x = k THEN v ELSE d[x]]
DictPop(d, ks)   == [x \in DOMAIN d \ ks |-> d[x]]

register_session_uuid_no_existing_check(st, addr, session_uuid) ==
    LET s == UdpSession(st.nobj + 1, addr, session_uuid)
    IN  [st EXCEPT !.sessions = DictSet(st.sessions, addr, s),
                   !.uuid_mapping = DictSet(st.uuid_mapping, addr, session_uuid),
                   !.nobj = st.nobj + 1,
                   !.alive = st.alive \cup {[id |-> s.id, addr |-> addr]}]

register_session_uuid_keeps_old_id(st, addr, session_uuid) ==
    IF addr \in DOMAIN st.sessions
    THEN st
    ELSE register_session_uuid_no_existing_check(st, addr, session_uuid)

\* AudioSocketUdpProtocol.register_session_uuid
register_session_uuid(st, addr, session_uuid) ==
    IF addr \in DOMAIN st.sessions
    THEN [st EXCEPT !.sessions[addr].session_uuid = session_uuid]
    ELSE LET s == UdpSession(st.nobj + 1, addr, session_uuid)
         IN  [st EXCEPT !.sessions = DictSet(st.sessions, addr, s),
                        !.uuid_mapping = DictSet(st.uuid_mapping, addr, session_uuid),
                        !.nobj = st.nobj + 1,
                        !.alive = st.alive \cup {[id |-> s.id, addr |-> addr]}]

\* POST /register (register_uuid)
register_uuid(ip, port, session_uuid) ==
    LET addr == <<ip, port>>
    IN  IF ip = "" \/ port = 0 \/ session_uuid = NoUuid
        THEN /\ http' = [NoHttp EXCEPT !.op = "register", !.status = 400,
                                       !.addr = addr, !.uuid = session_uuid]
             /\ UNCHANGED <<sessions, uuid_mapping, wire, nobj, alive, reg, rx>>
        ELSE LET r == register_session_uuid(RegState, addr, session_uuid)
             IN  /\ r.nobj <= MaxObjs
                 /\ sessions' = r.sessions
                 /\ uuid_mapping' = r.uuid_mapping
                 /\ wire' = r.wire
                 /\ nobj' = r.nobj
                 /\ alive' = r.alive
                 /\ reg' = [reg EXCEPT ![addr] = session_uuid]
                 /\ http' = [NoHttp EXCEPT !.op = "register", !.status = 200,
                                           !.addr = addr, !.uuid = session_uuid,
                                           !.existed = (addr \in DOMAIN sessions)]
                 /\ UNCHANGED rx

\* POST /unregister leaving the pre-registration map as it is
unregister_uuid_keeps_mapping(session_uuid) ==
    IF session_uuid = NoUuid
    THEN /\ http' = [NoHttp EXCEPT !.op = "unregister", !.status = 400]
         /\ UNCHANGED <<sessions, uuid_mapping, wire, nobj, alive, reg, rx>>
    ELSE LET found == {a \in DOMAIN sessions : sessions[a].session_uuid = session_uuid}
             removed_count == Cardinality({a \in found : ~cleanup(sessions[a]).raised})
         IN  /\ sessions' = DictPop(sessions, found)
             /\ alive' = {o \in alive : o.addr \notin found}
             /\ reg' = [a \in Addrs |-> IF reg[a] = session_uuid THEN NoUuid ELSE reg[a]]
             /\ http' = [NoHttp EXCEPT !.op = "unregister",
                                       !.status = IF removed_count = 0 THEN 404 ELSE 200,
                                       !.uuid = session_uuid,
                                       !.removed_count = removed_count,
                                       !.found = Cardinality(found)]
             /\ UNCHANGED <<uuid_mapping, wire, nobj, rx>>

\* POST /unregister (unregister_uuid).  cleanup() raises before its first
\* await, so the traversal of protocol.sessions is not interleaved with any
\* other handler; removed_count counts the cleanups that returned.
unregister_uuid(session_uuid) ==
    IF session_uuid = NoUuid
    THEN /\ http' = [NoHttp EXCEPT !.op = "unregister", !.status = 400]
         /\ UNCHANGED <<sessions, uuid_mapping, wire, nobj, alive, reg, rx>>
    ELSE LET found == {a \in DOMAIN sessions : sessions[a].session_uuid = session_uuid}
             cleaned == {a \in found : ~cleanup(sessions[a]).raised}
             unmapped == {a \in found : cleanup(sessions[a]).unmapped}
             removed_count == Cardinality(cleaned)
         IN  /\ sessions' = DictPop(sessions, found)
             /\ uuid_mapping' = DictPop(DictPop(uuid_mapping, unmapped), found)
             /\ alive' = {o \in alive : o.addr \notin found}
             /\ reg' = [a \in Addrs |-> IF reg[a] = session_uuid THEN NoUuid ELSE reg[a]]
             /\ http' = [NoHttp EXCEPT !.op = "unregister",
                                       !.status = IF removed_count = 0 THEN 404 ELSE 200,
                                       !.uuid = session_uuid,
                                       !.removed_count = removed_count,
                                       !.found = Cardinality(found)]
             /\ UNCHANGED <<wire, nobj, rx>>

----------------------------------------------------------------------------
(* POST /unregister when cleanup() suspends *)

\* unregister_uuid, lines 681-707, for sessions whose cleanup() reaches its
\* awaits (lines 389-427: the cancelled client task, the flush of the jitter
\* buffer, the audio handler, the cancelled write task).  While cleanup is
\* suspended the event loop runs other handlers; the traversal of
\* protocol.sessions.items() resumes afterwards.
\*   pc         idle, await (inside await sess.cleanup()), done
\*   used       len(protocol.sessions) when the traversal began
\*   todo       addresses the traversal has not visited yet (the model does
\*              not keep the insertion order of the dict: the remaining
\*              entries are visited in any order)
\*   to_remove  sessions_to_remove
\*   cur        the session being cleaned up
\*   cleaned    the sessions whose cleanup() has returned
\*   status     the HTTP status of the response
NoUr == [pc |-> "idle", uuid |-> NoUuid, used |-> 0, todo |-> {}, to_remove |-> {},
         cur |-> [addr |-> <<"", 0>>, id |-> 0], cleaned |-> {}, status |-> 0]

\* UdpSession.cleanup up to its first await: the log is closed and the
\* uuid_mapping entry deleted (lines 377-382)
cleanup_begin(a) ==
    /\ sessions' = [sessions EXCEPT ![a].log_open = FALSE]
    /\ uuid_mapping' = DictPop(uuid_mapping, {a})

\* The request arrives: the traversal runs to the first matching session and
\* suspends in its cleanup, or finds none and answers 404
unregister_start(session_uuid) ==
    LET found == {a \in DOMAIN sessions : sessions[a].session_uuid = session_uuid}
    IN  /\ ur.pc \in {"idle", "done"}
        /\ session_uuid # NoUuid
        /\ IF found = {}
           THEN /\ ur' = [NoUr EXCEPT !.pc = "done", !.uuid = session_uuid, !.status = 404]
                /\ UNCHANGED <<sessions, uuid_mapping>>
           ELSE \E a \in found :
                    /\ ur' = [NoUr EXCEPT !.pc = "await", !.uuid = session_uuid,
                                          !.used = Cardinality(DOMAIN sessions),
                                          !.todo = DOMAIN sessions \ {a},
                                          !.to_remove = {a},
                                          !.cur = [addr |-> a, id |-> sessions[a].id]]
                    /\ cleanup_begin(a)
        /\ UNCHANGED <<wire, nobj, alive, reg, http, rx>>

\* cleanup() returns and the traversal goes on: the dict iterator raises
\* RuntimeError when the size of the dict has changed since the traversal
\* began (the handler answers 500 from line 722 and pops nothing); otherwise
\* the next matching session is cleaned up, or the loop ends and lines
\* 705-707 pop sessions_to_remove.
unregister_resume ==
    LET cleaned == ur.cleaned \cup {ur.cur}
        more == {a \in ur.todo \cap DOMAIN sessions :
                    sessions[a].session_uuid = ur.uuid}
    IN  /\ ur.pc = "await"
        /\ IF Cardinality(DOMAIN sessions) # ur.used
           THEN /\ ur' = [ur EXCEPT !.pc = "done", !.status = 500, !.cleaned = cleaned]
                /\ UNCHANGED <<sessions, uuid_mapping, alive, reg>>
           ELSE IF more # {}
           THEN \E a \in more :
                    /\ ur' = [ur EXCEPT !.cleaned = cleaned,
                                        !.todo = @ \ {a},
                                        !.to_remove = @ \cup {a},
                                        !.cur = [addr |-> a, id |-> sessions[a].id]]
                    /\ cleanup_begin(a)
                    /\ UNCHANGED <<alive, reg>>
           ELSE /\ ur' = [ur EXCEPT !.pc = "done", !.status = 200, !.cleaned = cleaned]
                /\ sessions' = DictPop(sessions, ur.to_remove)
                /\ uuid_mapping' = DictPop(uuid_mapping, ur.to_remove)
                /\ alive' = {o \in alive : o.addr \notin ur.to_remove}
                /\ reg' = [a \in Addrs |-> IF reg[a] = ur.uuid THEN NoUuid ELSE reg[a]]
        /\ UNCHANGED <<wire, nobj, http, rx>>

----------------------------------------------------------------------------
(* RTP Demultiplexer *)

\* lines 566-571: latch inbound_pt / ssrc and seed seq_out / ts_out
latch_always(s, h) ==
    [s EXCEPT !.inbound_pt = h.pt, !.ssrc = h.ssrc,
              !.seq_out = h.seq, !.ts_out = h.ts]

latch(s, h) ==
    IF s.inbound_pt = None \/ s.ssrc = None
    THEN [s EXCEPT !.inbound_pt = h.pt, !.ssrc = h.ssrc,
                   !.seq_out = h.seq, !.ts_out = h.ts]
    ELSE s

\* AudioSocketUdpProtocol.datagram_received.  The handoff task of line 593
\* (handle_incoming_payload) finds no jitter_buffer attribute on the session;
\* its AttributeError is caught and logged, and it changes nothing.
datagram_received(data, addr) ==
    IF (addr[1] = "127.0.0.1" /\ data.selftest) \/ data.len < 12 \/ data.version # 2
    THEN /\ rx' = [NoRx EXCEPT !.addr = addr, !.outcome = "dropped"]
         /\ UNCHANGED <<sessions, uuid_mapping, wire, nobj, alive, reg, http>>
    ELSE LET h == data.hdr
             isnew == addr \notin DOMAIN sessions
             session_uuid == IF addr \in DOMAIN uuid_mapping
                             THEN uuid_mapping[addr] ELSE NoUuid
             s0 == IF isnew THEN UdpSession(nobj + 1, addr, session_uuid)
                            ELSE sessions[addr]
             s1 == latch(s0, h)
         IN  /\ isnew => nobj < MaxObjs
             /\ sessions' = DictSet(sessions, addr, s1)
             /\ nobj' = IF isnew THEN nobj + 1 ELSE nobj
             /\ alive' = IF isnew THEN alive \cup {[id |-> s0.id, addr |-> addr]}
                                   ELSE alive
             /\ rx' = [addr |-> addr, hdr |-> h, sid |-> s1.id,
                       uuid |-> s1.session_uuid, created |-> isnew,
                       reg |-> reg[addr],
                       pt |-> h.pt,    \* line 593: handle_incoming_payload(payload, pt)
                       outcome |-> "handled"]
             /\ UNCHANGED <<uuid_mapping, wire, reg, http>>

----------------------------------------------------------------------------
(* AudioConverter *)

RECURSIVE gcd(_, _)
gcd(a, b) == IF b = 0 THEN a ELSE gcd(b, a % b)

\* scipy.signal.resample_poly(x, up, down) on n samples: the number of
\* samples of the result.  up and down are reduced by their gcd and the
\* result has n * up // down + bool(n * up % down) samples.
resample_poly_len(n, up, down) ==
    LET g == gcd(up, down)
        u == up \div g
        d == down \div g
    IN  IF u = 1 /\ d = 1 THEN n
        ELSE (n * u) \div d + (IF (n * u) % d # 0 THEN 1 ELSE 0)

\* AudioConverter.resample_audio on pcm_len bytes of PCM16: the length in
\* bytes of the result, None when np.frombuffer raises ValueError (a buffer
\* that is no whole number of int16 samples).  num_samples_out (line 24) is
\* computed and not used.
resample_audio(pcm_len, sr_in, sr_out) ==
    IF pcm_len = 0 THEN 0
    ELSE IF sr_in = sr_out THEN pcm_len
    ELSE IF pcm_len % DEFAULT_SAMPLE_WIDTH # 0 THEN None
    ELSE DEFAULT_SAMPLE_WIDTH
            * resample_poly_len(pcm_len \div DEFAULT_SAMPLE_WIDTH, sr_out, sr_in)

\* No call, and a call with its result (called: the call has returned)
NoConv == [pcm_len |-> 0, sr_in |-> 0, sr_out |-> 0, called |-> FALSE, result |-> 0]

Rates == { DEFAULT_SAMPLE_RATE, OPENAI_INPUT_RATE }

----------------------------------------------------------------------------
(* Output Buffer (egress) *)

\* Lengths in bytes of the resampled PCM16 chunks handed to add_chunk:
\* less than a frame, a frame and a tail, two frames and a tail.
ChunkLens == { 160, 482, 700 }

\* OutputBuffer.__init__.  History: in_bytes is the number of bytes add_chunk
\* has accepted, overflowed whether it has discarded a chunk.
OutputBuffer ==
    [ buffer  |-> << >>,      \* deque of chunks, each by its length
      running |-> FALSE,
      task    |-> "none",     \* output_task: none, run, ended
      pending |-> 0,          \* len(pending_pcm) of the running _output_loop
      cleaned |-> FALSE,      \* AudioHandler.cleanup has run
      in_bytes   |-> 0,
      overflowed |-> FALSE ]

RECURSIVE SumSeq(_)
SumSeq(s) == IF s = << >> THEN 0 ELSE Head(s) + SumSeq(Tail(s))

\* lines 258-260: pull chunks until a frame is available
RECURSIVE Gather(_, _)
Gather(pending, buffer) ==
    IF pending < RTP_FRAME_SIZE /\ buffer # << >>
    THEN Gather(pending + Head(buffer), Tail(buffer))
    ELSE [pending |-> pending, buffer |-> buffer]

\* make_send_pcm_callback.send_pcm: put_nowait on an unbounded asyncio.Queue
send_pcm(q, data) == Append(q, data)

\* OutputBuffer.add_chunk with ENABLE_JITTER_BUFFER (the default)
add_chunk(pcm_len) ==
    LET b1 == Append(ob.buffer, pcm_len)
        over == Len(b1) > OUTPUT_BUFFER_MAX_FRAMES
        b2 == IF over THEN Tail(b1) ELSE b1
        o1 == [ob EXCEPT !.buffer = b2, !.in_bytes = @ + pcm_len,
                         !.overflowed = @ \/ over]
    IN  /\ nchunks < MaxChunks
        /\ nchunks' = nchunks + 1
        /\ ob' = IF ~ob.running
                 THEN [o1 EXCEPT !.running = TRUE, !.task = "run", !.pending = 0]
                 ELSE o1
        /\ UNCHANGED <<write_queue, wl, fl>>

\* One iteration of _output_loop, up to its next sleep, emitting whatever
\* the accumulator holds when less than a frame is available.
output_loop_short_frames ==
    LET g == Gather(ob.pending, ob.buffer)
    IN  /\ ob.task = "run"
        /\ IF g.pending > 0
           THEN /\ write_queue' = send_pcm(write_queue,
                        IF g.pending >= RTP_FRAME_SIZE THEN RTP_FRAME_SIZE ELSE g.pending)
                /\ ob' = [ob EXCEPT !.buffer = g.buffer,
                             !.pending = IF g.pending >= RTP_FRAME_SIZE
                                         THEN g.pending - RTP_FRAME_SIZE ELSE 0]
           ELSE /\ ob' = [ob EXCEPT !.buffer = g.buffer, !.pending = g.pending]
                /\ UNCHANGED write_queue
        /\ UNCHANGED <<wl, fl, nchunks>>

\* One iteration of _output_loop that forgets the bytes of its accumulator
\* when they make no frame and no chunk is waiting
output_loop_forgets_tail ==
    LET g == Gather(ob.pending, ob.buffer)
    IN  /\ ob.task = "run"
        /\ IF g.pending >= RTP_FRAME_SIZE
           THEN /\ write_queue' = send_pcm(write_queue, RTP_FRAME_SIZE)
                /\ ob' = [ob EXCEPT !.buffer = g.buffer,
                                    !.pending = g.pending - RTP_FRAME_SIZE]
           ELSE /\ ob' = [ob EXCEPT !.buffer = g.buffer, !.pending = 0]
                /\ UNCHANGED write_queue
        /\ UNCHANGED <<wl, fl, nchunks>>

\* OutputBuffer._output_loop: one iteration, up to its next sleep
output_loop ==
    LET g == Gather(ob.pending, ob.buffer)
    IN  /\ ob.task = "run"
        /\ IF ~(ob.running \/ Len(ob.buffer) > 0 \/ ob.pending > 0)
           THEN /\ ob' = [ob EXCEPT !.task = "ended", !.pending = 0]
                /\ UNCHANGED write_queue
           ELSE IF g.pending >= RTP_FRAME_SIZE
           THEN /\ write_queue' = send_pcm(write_queue, RTP_FRAME_SIZE)
                /\ ob' = [ob EXCEPT !.buffer = g.buffer,
                                    !.pending = g.pending - RTP_FRAME_SIZE]
           ELSE /\ ob' = [ob EXCEPT !.buffer = g.buffer, !.pending = g.pending]
                /\ UNCHANGED write_queue
        /\ UNCHANGED <<wl, fl, nchunks>>

\* OutputBuffer.flush from its start to its first sleep or its end, for a
\* buffer b: the queue afterwards and the coroutine's accumulator (0 and
\* done when it has ended; the tail shorter than a frame is discarded).
flush_begin(q, b) ==
    LET total == SumSeq(b)
    IN  IF total >= RTP_FRAME_SIZE
        THEN [queue |-> send_pcm(q, RTP_FRAME_SIZE),
              co |-> [pc |-> "run", pending |-> total - RTP_FRAME_SIZE]]
        ELSE [queue |-> q, co |-> [pc |-> "done", pending |-> 0]]

KeepRunning(cos) == SelectSeq(cos, LAMBDA c : c.pc # "done")

\* AudioHandler.cleanup, lines 216-226: output_buffer.stop(), which schedules
\* a flush task and cancels the output task (its accumulator is lost), then
\* await output_buffer.flush().
ah_cleanup ==
    LET task == IF ob.task = "none" THEN << >> ELSE << [pc |-> "new", pending |-> 0] >>
        f == flush_begin(write_queue, ob.buffer)
    IN  /\ ~ob.cleaned
        /\ ob' = [ob EXCEPT !.running = FALSE, !.buffer = << >>, !.pending = 0,
                            !.task = IF ob.task = "none" THEN "none" ELSE "ended",
                            !.cleaned = TRUE]
        /\ write_queue' = f.queue
        /\ fl' = KeepRunning(fl \o task \o << f.co >>)
        /\ UNCHANGED <<wl, nchunks>>

\* A flush() coroutine runs: the task scheduled by stop() starts, or a
\* flush resumes after its sleep of line 334.
flush_run(i) ==
    /\ i \in DOMAIN fl
    /\ IF fl[i].pc = "new"
       THEN LET f == flush_begin(write_queue, ob.buffer)
            IN  /\ write_queue' = f.queue
                /\ ob' = [ob EXCEPT !.buffer = << >>]
                /\ fl' = KeepRunning([fl EXCEPT ![i] = f.co])
       ELSE IF fl[i].pending >= RTP_FRAME_SIZE
       THEN /\ write_queue' = send_pcm(write_queue, RTP_FRAME_SIZE)
            /\ fl' = [fl EXCEPT ![i].pending = @ - RTP_FRAME_SIZE]
            /\ UNCHANGED ob
       ELSE /\ fl' = KeepRunning([fl EXCEPT ![i].pc = "done"])
            /\ UNCHANGED <<write_queue, ob>>
    /\ UNCHANGED <<wl, nchunks>>

----------------------------------------------------------------------------
(* RTP Paced Sender *)

TxAddr == <<"10.0.0.5", 4000>>      \* remote_addr of the session write_loop serves

\* codecs.pcm16_to_alaw on n bytes: the length of the result
pcm16_to_alaw_len(n) == n \div 2

\* write_loop, lines 67-155: take a frame, advance seq_out and ts_out, build
\* the packet.  sleeps: whether the pacing wait of lines 160-163 suspends
\* the loop before the sendto (never before the first send).
write_loop_get(sleeps) ==
    LET session == sessions[TxAddr]
        data == Head(write_queue)
        pt   == IF session.inbound_pt # None THEN session.inbound_pt ELSE DEFAULT_PT
        ssrc == IF session.ssrc # None THEN session.ssrc ELSE DEFAULT_SSRC
        seq  == (session.seq_out + 1) % 65536
        samples == data \div DEFAULT_SAMPLE_WIDTH
        ts   == TsAdd(session.ts_out, samples)
        packet == [to |-> TxAddr, len |-> pcm16_to_alaw_len(data), seq |-> seq,
                   ts |-> ts, pt |-> pt % 128, ssrc |-> ssrc, by |-> "write_loop"]
    IN  /\ wl.pc = "get"
        /\ write_queue # << >>
        /\ wl.first => ~sleeps
        /\ write_queue' = Tail(write_queue)
        /\ IF data = 0 \/ data % DEFAULT_SAMPLE_WIDTH # 0
           THEN /\ sessions' = [sessions EXCEPT ![TxAddr].seq_out = seq]
                /\ UNCHANGED <<wl, wire>>
           ELSE /\ sessions' = [sessions EXCEPT ![TxAddr].seq_out = seq,
                                                ![TxAddr].ts_out = ts]
                /\ IF sleeps
                   THEN /\ wl' = [wl EXCEPT !.pc = "send", !.pkt = packet]
                        /\ UNCHANGED wire
                   ELSE /\ wl' = [wl EXCEPT !.first = FALSE]
                        /\ wire' = Append(wire, packet)
        /\ UNCHANGED <<uuid_mapping, nobj, alive, reg, http, rx, ob, fl, nchunks>>

\* write_loop, lines 165-167: the sendto after the pacing wait
write_loop_send ==
    /\ wl.pc = "send"
    /\ wire' = Append(wire, wl.pkt)
    /\ wl' = [pc |-> "get", first |-> FALSE, pkt |-> NoPkt]
    /\ UNCHANGED <<sessions, uuid_mapping, nobj, alive, reg, http, rx,
                   write_queue, ob, fl, nchunks>>

----------------------------------------------------------------------------
(* RTP Paced Sender: the pacing of lines 157-167 *)

\* Times are in milliseconds of loop.time().
\*   now             loop.time()
\*   last_send_time  the local variable of write_loop (None before the
\*                   first send)
\*   wake            the time at which the asyncio.sleep of line 163 ends
\*   prev            history: the time of the send before the last one
NoClock == [now |-> 0, last_send_time |-> None, wake |-> 0, prev |-> None]

\* The amounts by which the clock is seen to advance between two steps
TickLens == { 10, 20 }

\* Time passes
tick(d) ==
    /\ tm.now + d <= MaxTime
    /\ tm' = [tm EXCEPT !.now = @ + d]

\* line 166: last_send_time = loop.time() after the sendto
sent_now == [tm EXCEPT !.prev = tm.last_send_time, !.last_send_time = tm.now]

\* A write_loop that never waits before the sendto
pace_get_no_wait ==
    /\ write_loop_get(FALSE)
    /\ tm' = IF Head(write_queue) = 0 \/ Head(write_queue) % DEFAULT_SAMPLE_WIDTH # 0
             THEN tm ELSE sent_now

\* write_loop from the get of line 67 to the sendto, or to the sleep of
\* lines 160-163 when less than RTP_PACKET_INTERVAL has passed since the
\* last send
pace_get ==
    LET sleeps == /\ tm.last_send_time # None
                  /\ tm.now - tm.last_send_time < RTP_PACKET_INTERVAL
    IN  /\ write_loop_get(sleeps)
        /\ tm' = IF Head(write_queue) = 0 \/ Head(write_queue) % DEFAULT_SAMPLE_WIDTH # 0
                 THEN tm
                 ELSE IF sleeps
                 THEN [tm EXCEPT !.wake = tm.last_send_time + RTP_PACKET_INTERVAL]
                 ELSE sent_now

\* The sleep has ended: lines 165-166
pace_send ==
    /\ tm.now >= tm.wake
    /\ write_loop_send
    /\ tm' = sent_now

----------------------------------------------------------------------------
(* Dialog Client *)

ResponseIds == { "R1", "R2" }
NoId == ""          \* no response id: None or an event without one

\* AudioWebSocketClient.__init__ and AudioHandler.__init__: the fields the
\* event dispatcher and the local VAD read and write.
\*   run, receive   positions of run() and of receive_events()
\*   sent           events handed to ws.send, by type
\*   srv_*          the remote model: the response it is producing, the ones
\*                  it has created, whether it has announced speech
\*   dialog_state   the state of the event table
\*   last, delta, hi_run, cut   history: the last event processed
\*                  ("response.switched": a response.created that replaced
\*                  another active response); for the
\*                  last audio delta its id, active_response_id before it and
\*                  whether it was enqueued; inbound frames in a row with RMS
\*                  at or above the threshold, each processed with an active
\*                  response; the number of packets sent when playback was
\*                  last interrupted; the response id the last
\*                  response.completed / canceled / error carried; whether
\*                  push_pcm has dropped a frame (asyncio.QueueFull)
\*   transcript_buffers   the keys of _transcript_buffers
AudioWebSocketClient ==
    [ connected            |-> FALSE,
      run                  |-> "none",    \* none, connect, wait, ended
      receive              |-> "none",    \* none, run, ended
      active_response_id   |-> NoId,
      awaiting_response    |-> FALSE,
      consecutive_high_rms |-> 0,
      pcm_queue            |-> << >>,     \* the frames waiting in pcm_queue
      sent                 |-> [session_update |-> 0, response_create |-> 0,
                                commit |-> 0, append |-> FALSE],
      running              |-> FALSE,     \* audio_handler.running
      audio_queue          |-> 0,         \* audio_handler.audio_queue.qsize()
      dialog_state         |-> "Idle",
      srv_active           |-> NoId,
      srv_created          |-> {},
      srv_speech           |-> FALSE,
      last                 |-> "none",
      delta                |-> [id |-> NoId, active |-> NoId, enqueued |-> FALSE],
      hi_run               |-> 0,
      cut                  |-> None,
      transcript_buffers   |-> {},
      fin                  |-> NoId,
      pcm_dropped          |-> FALSE ]

\* The state column of the event table for an event or a local barge-in
dialog_state_after(event, old) ==
    CASE event = "response.created" -> "ModelSpeaking"
      [] event \in {"input_audio_buffer.speech_started", "local_barge_in"} -> "UserSpeaking"
      [] event = "input_audio_buffer.speech_stopped" -> "AwaitingResponse"
      [] event \in {"response.completed", "response.canceled", "response.error"} -> "Idle"
      [] OTHER -> old

\* AudioWebSocketClient.send_event: json.dumps and ws.send
send_event(d, type) ==
    CASE type = "session.update" -> [d EXCEPT !.sent.session_update = @ + 1]
      [] type = "response.create" -> [d EXCEPT !.sent.response_create = @ + 1]
      [] type = "input_audio_buffer.commit" -> [d EXCEPT !.sent.commit = @ + 1]
      [] OTHER -> [d EXCEPT !.sent.append = TRUE]

\* AudioHandler.interrupt_playback: stop_playback, then drain audio_queue.
\* The OutputBuffer is not touched.
interrupt_playback(d) ==
    [d EXCEPT !.running = FALSE, !.audio_queue = 0, !.cut = Len(wire)]

\* AudioHandler.enqueue_audio
enqueue_audio(d) == [d EXCEPT !.running = TRUE, !.audio_queue = @ + 1]

\* AudioWebSocketClient._begin_response
begin_response(d, response_id) ==
    IF response_id = NoId THEN d
    ELSE LET d1 == IF d.active_response_id # NoId /\ d.active_response_id # response_id
                   THEN interrupt_playback(d) ELSE d
         IN  [d1 EXCEPT !.active_response_id = response_id]

\* AudioWebSocketClient._finish_response
finish_response(d, response_id) ==
    IF response_id = NoId THEN d
    ELSE IF d.active_response_id # response_id THEN d
    ELSE [d EXCEPT !.active_response_id = NoId]

Processed(d, event) ==
    [d EXCEPT !.dialog_state = dialog_state_after(event, d.dialog_state),
              !.last = event]

\* AudioWebSocketClient.run up to asyncio.wait: connect() opens the
\* websocket and sends session.update and the greeting's response.create,
\* then the forward and receive tasks start; or websockets.connect raises
\* and run() ends through its finally block.
connect(ok) ==
    /\ dlg.run = "connect"
    /\ dlg' = IF ok
              THEN send_event(send_event([dlg EXCEPT !.connected = TRUE,
                                                     !.run = "wait",
                                                     !.receive = "run"],
                                         "session.update"),
                              "response.create")
              ELSE [dlg EXCEPT !.connected = FALSE, !.run = "ended"]

\* The websocket closes: receive_events catches ConnectionClosed and
\* returns.  run() stays in asyncio.wait(return_when=FIRST_EXCEPTION): no
\* task raised and the forward task never ends.
ws_closed ==
    /\ dlg.receive = "run"
    /\ dlg' = [dlg EXCEPT !.receive = "ended"]

\* _forward_pcm_to_openai: take chunks from pcm_queue up to
\* MIN_OPENAI_INPUT_CHUNK bytes and send one input_audio_buffer.append
forward_pcm ==
    LET n == (MIN_OPENAI_INPUT_CHUNK + RTP_FRAME_SIZE - 1) \div RTP_FRAME_SIZE
    IN  /\ dlg.run = "wait"
        /\ Len(dlg.pcm_queue) > 0
        /\ dlg' = send_event([dlg EXCEPT !.pcm_queue = IF Len(@) > n
                                                       THEN SubSeq(@, n + 1, Len(@))
                                                       ELSE << >>],
                             "input_audio_buffer.append")

\* receive_events, response.created: the model starts a response
on_response_created(id) ==
    LET d1 == IF dlg.active_response_id # NoId /\ dlg.active_response_id # id
              THEN interrupt_playback(dlg) ELSE dlg
        d2 == begin_response([d1 EXCEPT !.awaiting_response = TRUE], id)
    IN  /\ dlg.receive = "run"
        /\ id \notin dlg.srv_created
        /\ dlg' = [Processed([d2 EXCEPT !.srv_active = id,
                                        !.srv_created = @ \cup {id}],
                             "response.created")
                     EXCEPT !.last = IF dlg.active_response_id \notin {NoId, id}
                                     THEN "response.switched" ELSE @]

\* receive_events, response.audio.delta with audio, for a response the
\* model has created
on_audio_delta(id) ==
    LET d1 == IF id # NoId /\ dlg.active_response_id = NoId
              THEN begin_response(dlg, id) ELSE dlg
        dropped == d1.active_response_id # NoId /\ id # NoId
                   /\ id # d1.active_response_id
        d2 == IF dropped THEN d1 ELSE enqueue_audio(d1)
    IN  /\ dlg.receive = "run"
        /\ id \in dlg.srv_created
        /\ dlg.audio_queue < MaxAudioQueue
        /\ dlg' = Processed([d2 EXCEPT !.delta = [id |-> id,
                                                  active |-> dlg.active_response_id,
                                                  enqueued |-> ~dropped]],
                            "response.audio.delta")

\* receive_events, input_audio_buffer.speech_started
on_speech_started ==
    LET d1 == interrupt_playback(dlg)
        d2 == IF d1.active_response_id # NoId
              THEN [d1 EXCEPT !.active_response_id = NoId, !.awaiting_response = FALSE]
              ELSE d1
    IN  /\ dlg.receive = "run"
        /\ ~dlg.srv_speech
        /\ dlg' = Processed([d2 EXCEPT !.srv_speech = TRUE],
                            "input_audio_buffer.speech_started")

\* receive_events, input_audio_buffer.speech_stopped, sending what the
\* client would send if it managed the turn itself
on_speech_stopped_commits ==
    /\ dlg.receive = "run"
    /\ dlg.srv_speech
    /\ dlg' = Processed(send_event(send_event([dlg EXCEPT !.srv_speech = FALSE],
                                              "input_audio_buffer.commit"),
                                   "response.create"),
                        "input_audio_buffer.speech_stopped")

\* receive_events, input_audio_buffer.speech_stopped: nothing but a log line
on_speech_stopped ==
    /\ dlg.receive = "run"
    /\ dlg.srv_speech
    /\ dlg' = Processed([dlg EXCEPT !.srv_speech = FALSE],
                        "input_audio_buffer.speech_stopped")

\* The key of _transcript_buffers for an event: its response id or "default"
transcript_key(id) == IF id = NoId THEN "default" ELSE id

\* receive_events, response.audio_transcript.delta with a non-empty delta:
\* _remember_transcript_delta
on_transcript_delta(id) ==
    /\ dlg.receive = "run"
    /\ id \in dlg.srv_created \cup {NoId}
    /\ dlg' = Processed([dlg EXCEPT !.transcript_buffers = @ \cup {transcript_key(id)}],
                        "response.audio_transcript.delta")

\* receive_events, response.audio_transcript.done: _finalize_transcript
on_transcript_done(id) ==
    /\ dlg.receive = "run"
    /\ id \in dlg.srv_created \cup {NoId}
    /\ dlg' = Processed([dlg EXCEPT !.transcript_buffers = @ \ {transcript_key(id)}],
                        "response.audio_transcript.done")

\* receive_events, response.completed / response.canceled / response.error
\* for a response the model has created, or with no response id
on_response_finished(event, id) ==
    /\ dlg.receive = "run"
    /\ id \in dlg.srv_created \cup {NoId}
    /\ dlg' = Processed([finish_response(
                             [dlg EXCEPT !.awaiting_response = FALSE,
                                         !.transcript_buffers =
                                             IF event # "response.canceled" /\ id # NoId
                                             THEN @ \ {id} ELSE @], id)
                            EXCEPT !.srv_active = IF @ = id THEN NoId ELSE @,
                                   !.fin = id],
                        event)

\* AudioWebSocketClient._check_local_barge_in for a frame of non-zero RMS:
\* the client afterwards and whether a barge-in was detected
check_local_barge_in(d, high) ==
    IF ~d.running
    THEN [d |-> [d EXCEPT !.consecutive_high_rms = 0], hit |-> FALSE]
    ELSE IF high
    THEN IF d.consecutive_high_rms + 1 >= BARGE_IN_FRAMES_THRESHOLD
         THEN [d |-> [d EXCEPT !.consecutive_high_rms = 0], hit |-> TRUE]
         ELSE [d |-> [d EXCEPT !.consecutive_high_rms = @ + 1], hit |-> FALSE]
    ELSE [d |-> [d EXCEPT !.consecutive_high_rms = 0], hit |-> FALSE]

\* AudioWebSocketClient._track_voice_activity for a frame whose RMS is
\* "zero", "low" (below VAD_RMS_THRESHOLD) or "high"
track_voice_activity(d, rms) ==
    IF rms = "zero"
    THEN [d EXCEPT !.last = "frame"]
    ELSE LET c == check_local_barge_in(d, rms = "high")
             d1 == IF c.hit THEN interrupt_playback(c.d) ELSE c.d
             d2 == IF c.hit /\ d1.active_response_id # NoId
                   THEN [d1 EXCEPT !.active_response_id = NoId,
                                   !.awaiting_response = FALSE]
                   ELSE d1
         IN  Processed(d2, IF c.hit THEN "local_barge_in" ELSE "frame")

\* The PCM frames handed to push_pcm, by name
PcmFrames == { "F1", "F2" }

\* A push_pcm that makes room for the incoming frame by dropping the oldest
push_pcm_drops_oldest(rms, data) ==
    LET d1 == track_voice_activity(dlg, rms)
        hi == IF rms = "high" /\ dlg.active_response_id # NoId
              THEN (IF dlg.hi_run >= BARGE_IN_FRAMES_THRESHOLD THEN 1 ELSE dlg.hi_run + 1)
              ELSE 0
        full == Len(dlg.pcm_queue) >= MaxPcmQueue
    IN  dlg' = [d1 EXCEPT !.hi_run = hi,
                          !.pcm_queue = IF full THEN Append(Tail(@), data)
                                        ELSE Append(@, data),
                          !.pcm_dropped = @ \/ full]

\* push_pcm on a non-empty frame: the local VAD, then put_nowait on
\* pcm_queue (a frame that finds the queue full is dropped with a warning)
push_pcm(rms, data) ==
    LET d1 == track_voice_activity(dlg, rms)
        hi == IF rms = "high" /\ dlg.active_response_id # NoId
              THEN (IF dlg.hi_run >= BARGE_IN_FRAMES_THRESHOLD THEN 1 ELSE dlg.hi_run + 1)
              ELSE 0
        full == Len(dlg.pcm_queue) >= MaxPcmQueue
    IN  dlg' = [d1 EXCEPT !.hi_run = hi,
                          !.pcm_queue = IF full THEN @ ELSE Append(@, data),
                          !.pcm_dropped = @ \/ full]

\* AudioHandler._playback_loop takes one chunk from audio_queue
playback_get ==
    /\ dlg.running /\ dlg.audio_queue > 0
    /\ dlg' = [dlg EXCEPT !.audio_queue = @ - 1]

----------------------------------------------------------------------------
(* Jitter Buffer (ingress) *)

\* JitterBuffer.__init__.  Frames are named 1, 2, ... in the order add_frame
\* accepts them.  History: delivered lists the frames passed to
\* output_callback, by who passed them (loop: _output_loop, flush: a flush()
\* that cleanup awaits, task: a flush task started by stop()); dropped is the
\* number of frames add_frame has discarded (it logs one warning for each).
JitterBuffer ==
    [ buffer                |-> << >>,
      running               |-> FALSE,
      output_task           |-> "none",     \* none, run, ended
      total_frames_received |-> 0,
      total_frames_output   |-> 0,
      dropped               |-> 0,
      delivered             |-> << >>,
      by                    |-> {} ]

\* The counters a JitterBuffer keeps
JbCounters(j) == {j.total_frames_received, j.total_frames_output}

\* The flush() coroutines alive and the position of UdpSession.cleanup:
\* idle, flush (awaiting jitter_buffer.flush(), line 405), rest (lines
\* 413-426), returned.
NoJbTasks == [fl |-> << >>, cleanup |-> "idle"]

\* line 108: target_frames = max(1, int(target_ms / 20.0))
target_frames ==
    IF JITTER_BUFFER_TARGET_MS \div 20 > 1 THEN JITTER_BUFFER_TARGET_MS \div 20 ELSE 1

\* output_callback(pcm_data) and the count of line 114 / 174
jb_output(j, frame, who) ==
    [j EXCEPT !.delivered = Append(@, frame), !.total_frames_output = @ + 1,
              !.by = @ \cup {who}]

\* JitterBuffer.add_frame with ENABLE_JITTER_BUFFER (the default)
add_frame(j) ==
    LET frame == j.total_frames_received + 1
        b1 == Append(j.buffer, frame)
        over == Len(b1) > JITTER_BUFFER_MAX_FRAMES
        j1 == [j EXCEPT !.buffer = IF over THEN Tail(b1) ELSE b1,
                        !.dropped = IF over THEN @ + 1 ELSE @,
                        !.total_frames_received = frame]
    IN  IF ~j.running
        THEN [j1 EXCEPT !.running = TRUE, !.output_task = "run"]
        ELSE j1

\* JitterBuffer._output_loop: one iteration, up to its next sleep
jb_output_loop(j) ==
    IF ~(j.running \/ Len(j.buffer) > 0)
    THEN [j EXCEPT !.output_task = "ended"]
    ELSE IF Len(j.buffer) >= target_frames
    THEN [jb_output(j, Head(j.buffer), "loop") EXCEPT !.buffer = Tail(j.buffer)]
    ELSE j

\* A flush that hands over the newest frame first
jb_flush_step_newest(j, who) ==
    IF Len(j.buffer) > 0
    THEN [j |-> [jb_output(j, j.buffer[Len(j.buffer)], who)
                    EXCEPT !.buffer = SubSeq(j.buffer, 1, Len(j.buffer) - 1)],
          pc |-> "sleep"]
    ELSE [j |-> j, pc |-> "done"]

\* JitterBuffer.flush: from its start or from its sleep of line 175 to its
\* next sleep or its end
jb_flush_step(j, who) ==
    IF Len(j.buffer) > 0
    THEN [j |-> [jb_output(j, Head(j.buffer), who) EXCEPT !.buffer = Tail(j.buffer)],
          pc |-> "sleep"]
    ELSE [j |-> j, pc |-> "done"]

\* JitterBuffer.stop: the flush tasks it schedules and the buffer afterwards;
\* the cancelled _output_loop delivers nothing more.
jb_stop(j) ==
    [ j |-> [j EXCEPT !.running = FALSE,
                      !.output_task = IF @ = "none" THEN "none" ELSE "ended"],
      tasks |-> IF j.output_task = "none" THEN << >>
                ELSE << [pc |-> "new", by |-> "stop"] >> ]

JbAlive(cos) == SelectSeq(cos, LAMBDA c : c.pc # "done")

\* handle_incoming_payload hands a decoded frame to the jitter buffer of
\* the session the registry holds (until /unregister pops it, line 706)
jb_add_frame ==
    /\ jb.total_frames_received < MaxFrames
    /\ jt.cleanup # "returned"
    /\ jb' = add_frame(jb)
    /\ UNCHANGED jt

jb_emit ==
    /\ jb.output_task = "run"
    /\ jb' = jb_output_loop(jb)
    /\ UNCHANGED jt

\* UdpSession.cleanup, lines 402-405: jitter_buffer.stop(), then
\* await jitter_buffer.flush() up to its first sleep
cleanup_jitter ==
    LET s == jb_stop(jb)
        f == jb_flush_step(s.j, "flush")
    IN  /\ jt.cleanup = "idle"
        /\ jb' = f.j
        /\ jt' = [fl |-> JbAlive(jt.fl \o s.tasks \o << [pc |-> f.pc, by |-> "cleanup"] >>),
                  cleanup |-> IF f.pc = "done" THEN "rest" ELSE "flush"]

\* A flush() coroutine runs: the task scheduled by stop() starts, or a
\* flush resumes after its sleep.  When the one cleanup awaits ends, cleanup
\* goes on to lines 413-426.
jb_flush_run(i) ==
    LET f == jb_flush_step(jb, IF jt.fl[i].by = "stop" THEN "task" ELSE "flush")
    IN  /\ i \in DOMAIN jt.fl
        /\ jb' = f.j
        /\ jt' = [fl |-> JbAlive([jt.fl EXCEPT ![i].pc = f.pc]),
                  cleanup |-> IF jt.fl[i].by = "cleanup" /\ f.pc = "done"
                              THEN "rest" ELSE jt.cleanup]

\* UdpSession.cleanup, lines 413-432: audio_handler.cleanup(), the cancel and
\* await of write_task, return.  The await of write_task suspends cleanup
\* for a turn of the event loop, in which every task scheduled earlier (a
\* flush task stop() has just created) has run to its first sleep.
cleanup_return ==
    /\ jt.cleanup = "rest"
    /\ \A i \in DOMAIN jt.fl : jt.fl[i].pc # "new"
    /\ jt' = [jt EXCEPT !.cleanup = "returned"]
    /\ UNCHANGED jb

----------------------------------------------------------------------------
(* The handoff of payloads from the demultiplexer to the session *)

\* Lengths in bytes of the RTP payloads: a 20 ms frame and one byte more
PayloadLens == { 160, 161 }

\* The tasks datagram_received creates at line 593, one for each datagram.
\* Datagrams are numbered 1, 2, ... in the order datagram_received is
\* called.
\*   ready     the tasks created and not yet run, in the order of their
\*             create_task calls (the ready queue of the event loop)
\*   received  the number of datagrams handled so far
\*   entered   history: the datagrams whose payload has been passed to
\*             jitter_buffer.add_frame, in the order of the calls
\*   rejected  history: the datagrams whose payload was refused (line 345)
\*   overtaken history: a task has run while a later one was waiting
NoHandoff == [ready |-> << >>, received |-> 0, entered |-> << >>,
              rejected |-> {}, overtaken |-> FALSE]

\* codecs.alaw_to_pcm16 on n bytes: the length of the result
alaw_to_pcm16_len(n) == 2 * n

\* datagram_received, line 593, for a datagram of an existing session:
\* create_task(session.handle_incoming_payload(payload, pt))
handoff_create(pt, len) ==
    /\ ho.received < MaxDatagrams
    /\ ho' = [ho EXCEPT !.received = @ + 1,
                        !.ready = Append(@, [k |-> ho.received + 1,
                                             pt |-> pt, len |-> len])]
    /\ UNCHANGED jbVars

\* UdpSession.handle_incoming_payload: it holds no await, so a task runs it
\* from start to end in one step of the event loop (t: the task)
handle_incoming_payload(t) ==
    LET pcm_len == IF t.pt = 8 THEN alaw_to_pcm16_len(t.len) ELSE t.len
    IN  IF pcm_len % DEFAULT_SAMPLE_WIDTH # 0
        THEN /\ ho' = [ho EXCEPT !.ready = Tail(@), !.rejected = @ \cup {t.k},
                                 !.overtaken = @ \/ Len(ho.ready) > 1]
             /\ UNCHANGED jbVars
        ELSE /\ ho' = [ho EXCEPT !.ready = Tail(@), !.entered = Append(@, t.k),
                                 !.overtaken = @ \/ Len(ho.ready) > 1]
             /\ jb' = add_frame(jb)
             /\ UNCHANGED jt

\* An event loop that runs the task created last
handoff_run_newest ==
    /\ ho.ready # << >>
    /\ LET n == Len(ho.ready)
           t == ho.ready[n]
       IN  /\ ho' = [ho EXCEPT !.ready = SubSeq(@, 1, n - 1),
                               !.entered = Append(@, t.k),
                               !.overtaken = @ \/ n > 1]
           /\ jb' = add_frame(jb)
           /\ UNCHANGED jt

\* The event loop runs the first step of the tasks in the order they were
\* created (create_task schedules it with call_soon; the ready handles run
\* first in, first out)
handoff_run ==
    /\ ho.ready # << >>
    /\ handle_incoming_payload(Head(ho.ready))

----------------------------------------------------------------------------
(* Call-control adapter (AriWsHandler) *)

\* The k-th call: its caller channel, the externalMedia channel created for
\* it, its bridge and its session id
CallerChannel(k) == <<"PJSIP", k>>
ExternalChannel(k) == <<"UnicastRTP", k>>

\* The points at which handle_stasis_start can raise: nowhere, in
\* create_bridge, in add_channel_to_bridge for the caller, in
\* create_external_media, or after the two maps were written (answer,
\* details, the second add, the checks)
FailPoints == { "none", "create_bridge", "add_caller", "external_media", "after_maps" }

\* AriWsHandler.__init__ and the bridges that exist in the PBX.
\*   calls   history: for each StasisStart of a caller channel, where its
\*           handling raised and the channels of the call for which a
\*           channel-ended event has been handled
NoAri == [channel_to_bridge |-> << >>, session_channels |-> << >>,
          bridges |-> {}, calls |-> << >>]

\* AriWsHandler.handle_stasis_start; every exception is caught at line 441
handle_stasis_start(pjsip, fail) ==
    LET k == Len(ari.calls) + 1
        call == [fail |-> fail, ended |-> {}]
    IN  IF ~pjsip
        THEN UNCHANGED ari
        ELSE /\ k <= MaxCalls
             /\ ari' =
                 IF fail = "create_bridge"
                 THEN [ari EXCEPT !.calls = Append(@, call)]
                 ELSE IF fail \in {"add_caller", "external_media"}
                 THEN [ari EXCEPT !.calls = Append(@, call),
                                  !.bridges = @ \cup {k}]
                 ELSE [ari EXCEPT
                         !.calls = Append(@, call),
                         !.bridges = @ \cup {k},
                         !.channel_to_bridge =
                             DictSet(DictSet(@, CallerChannel(k), k), ExternalChannel(k), k),
                         !.session_channels =
                             DictSet(@, k, <<CallerChannel(k), ExternalChannel(k)>>)]

\* AriWsHandler._cleanup_by_channel for a channel of call k, called by run()
\* for StasisEnd and for ChannelDestroyed.  hangup_channel and delete_bridge
\* reach the PBX (their exceptions would only be logged).
cleanup_by_channel(channel_id, k) ==
    LET handled == [ari EXCEPT !.calls[k].ended = @ \cup {channel_id}]
        sids == {sid \in DOMAIN ari.session_channels :
                    channel_id \in {ari.session_channels[sid][1],
                                    ari.session_channels[sid][2]}}
    IN  IF channel_id \notin DOMAIN ari.channel_to_bridge
        THEN ari' = handled
        ELSE ari' = [handled EXCEPT
                        !.bridges = @ \ {ari.channel_to_bridge[channel_id]},
                        !.channel_to_bridge = DictPop(@, {channel_id}),
                        !.session_channels = DictPop(@, sids)]

----------------------------------------------------------------------------
(* The demultiplexer and registrar as main() runs them *)

InitReg ==
    /\ sessions = << >>
    /\ uuid_mapping = << >>
    /\ wire = << >>
    /\ nobj = 0
    /\ alive = {}
    /\ reg = [a \in Addrs |-> NoUuid]
    /\ http = NoHttp
    /\ rx = NoRx

\* No write_loop task and no OutputBuffer exist (lines 290-328 have not run)
IdleTx ==
    /\ write_queue = << >>
    /\ wl = [pc |-> "off", first |-> TRUE, pkt |-> NoPkt]
    /\ ob = OutputBuffer
    /\ fl = << >>
    /\ nchunks = 0

\* No AudioWebSocketClient exists (lines 290-328 have not run)
IdleDlg == dlg = AudioWebSocketClient

\* No JitterBuffer exists (lines 290-328 have not run)
IdleJb == jb = JitterBuffer /\ jt = NoJbTasks

\* No payload has been handed over
IdleHo == ho = NoHandoff

\* The clock has not been started
IdleTm == tm = NoClock

\* The adapter has handled no event
IdleAri == ari = NoAri

\* No /unregister is in progress
IdleUr == ur = NoUr

\* No call of resample_audio is under consideration
IdleConv == conv = NoConv

Init == InitReg /\ IdleTx /\ IdleDlg /\ IdleJb /\ IdleConv /\ IdleUr /\ IdleHo /\ IdleTm /\ IdleAri

Register ==
    \E a \in Addrs, u \in RegIds \cup {NoUuid} :
        register_uuid(a[1], a[2], u) /\ UNCHANGED <<txVars, dlgVars, jbVars, convVars, urVars, hoVars, tmVars, ariVars>>

Unregister ==
    \E u \in RegIds \cup {NoUuid} \cup {GenIds[i] : i \in 1..MaxObjs} :
        unregister_uuid(u) /\ UNCHANGED <<txVars, dlgVars, jbVars, convVars, urVars, hoVars, tmVars, ariVars>>

Datagram ==
    \E d \in Datagrams, a \in Addrs :
        datagram_received(d, a) /\ UNCHANGED <<txVars, dlgVars, jbVars, convVars, urVars, hoVars, tmVars, ariVars>>

Next == Register \/ Unregister \/ Datagram

Spec == Init /\ [][Next]_vars

----------------------------------------------------------------------------
(* The registrar and the demultiplexer beside an /unregister whose cleanup()
   suspends *)

UnregisterStart ==
    \E u \in RegIds :
        unregister_start(u) /\ UNCHANGED <<txVars, dlgVars, jbVars, convVars, hoVars, tmVars, ariVars>>

UnregisterResume ==
    unregister_resume /\ UNCHANGED <<txVars, dlgVars, jbVars, convVars, hoVars, tmVars, ariVars>>

NextUnreg ==
    \/ Register /\ UNCHANGED <<ur, ho, tm, ari>>
    \/ Datagram /\ UNCHANGED <<ur, ho, tm, ari>>
    \/ UnregisterStart \/ UnregisterResume

SpecUnreg == Init /\ [][NextUnreg]_vars

----------------------------------------------------------------------------
(* write_loop and OutputBuffer driven for one session *)

\* The session /register creates for TxAddr, with the write_loop task of
\* lines 326-328 started on it and the OutputBuffer of its AudioHandler.
InitSession ==
    LET r == register_session_uuid(
                 [sessions |-> << >>, uuid_mapping |-> << >>, wire |-> << >>,
                  nobj |-> 0, alive |-> {}], TxAddr, "A")
    IN  /\ sessions = r.sessions
        /\ uuid_mapping = r.uuid_mapping
        /\ wire = r.wire
        /\ nobj = r.nobj
        /\ alive = r.alive
        /\ reg = [a \in Addrs |-> IF a = TxAddr THEN "A" ELSE NoUuid]
        /\ http = NoHttp
        /\ rx = NoRx

InitTx ==
    /\ InitSession
    /\ write_queue = << >>
    /\ wl = [pc |-> "get", first |-> TRUE, pkt |-> NoPkt]
    /\ ob = OutputBuffer
    /\ fl = << >>
    /\ nchunks = 0
    /\ IdleDlg
    /\ IdleJb
    /\ IdleConv /\ IdleUr /\ IdleHo /\ IdleTm /\ IdleAri

TxDatagram ==
    \E d \in {x \in Datagrams : x.len >= 12 /\ x.version = 2} :
        datagram_received(d, TxAddr) /\ UNCHANGED <<txVars, dlgVars, jbVars, convVars, urVars, hoVars, tmVars, ariVars>>

AddChunk ==
    \E n \in ChunkLens : add_chunk(n) /\ UNCHANGED <<regVars, dlgVars, jbVars, convVars, urVars, hoVars, tmVars, ariVars>>

OutputLoop == output_loop /\ UNCHANGED <<regVars, dlgVars, jbVars, convVars, urVars, hoVars, tmVars, ariVars>>

AhCleanup == ah_cleanup /\ UNCHANGED <<regVars, dlgVars, jbVars, convVars, urVars, hoVars, tmVars, ariVars>>

FlushRun == \E i \in DOMAIN fl : flush_run(i) /\ UNCHANGED <<regVars, dlgVars, jbVars, convVars, urVars, hoVars, tmVars, ariVars>>

WriteLoopGet == \E sleeps \in BOOLEAN : write_loop_get(sleeps) /\ UNCHANGED <<dlgVars, jbVars, convVars, urVars, hoVars, tmVars, ariVars>>

WriteLoopSend == write_loop_send /\ UNCHANGED <<dlgVars, jbVars, convVars, urVars, hoVars, tmVars, ariVars>>

NextTx == TxDatagram \/ AddChunk \/ OutputLoop \/ AhCleanup \/ FlushRun
          \/ WriteLoopGet \/ WriteLoopSend

SpecTx == InitTx /\ [][NextTx]_vars

----------------------------------------------------------------------------
(* AudioWebSocketClient.run and its event dispatcher for one session *)

\* The session /register creates for TxAddr, with the client task of line
\* 325 started on it
InitDlg ==
    /\ InitSession
    /\ IdleTx
    /\ dlg = [AudioWebSocketClient EXCEPT !.run = "connect"]
    /\ IdleJb
    /\ IdleConv /\ IdleUr /\ IdleHo /\ IdleTm /\ IdleAri

Connect == \E ok \in BOOLEAN : connect(ok) /\ UNCHANGED <<regVars, txVars, jbVars, convVars, urVars, hoVars, tmVars, ariVars>>

WsClosed == ws_closed /\ UNCHANGED <<regVars, txVars, jbVars, convVars, urVars, hoVars, tmVars, ariVars>>

ForwardPcm == forward_pcm /\ UNCHANGED <<regVars, txVars, jbVars, convVars, urVars, hoVars, tmVars, ariVars>>

ResponseCreated ==
    \E id \in ResponseIds : on_response_created(id) /\ UNCHANGED <<regVars, txVars, jbVars, convVars, urVars, hoVars, tmVars, ariVars>>

AudioDelta ==
    \E id \in ResponseIds : on_audio_delta(id) /\ UNCHANGED <<regVars, txVars, jbVars, convVars, urVars, hoVars, tmVars, ariVars>>

SpeechStarted == on_speech_started /\ UNCHANGED <<regVars, txVars, jbVars, convVars, urVars, hoVars, tmVars, ariVars>>

SpeechStopped == on_speech_stopped /\ UNCHANGED <<regVars, txVars, jbVars, convVars, urVars, hoVars, tmVars, ariVars>>

\* The model finishes the response it is producing
ResponseFinished ==
    \E e \in {"response.completed", "response.canceled", "response.error"},
       id \in ResponseIds :
        /\ id = dlg.srv_active
        /\ on_response_finished(e, id) /\ UNCHANGED <<regVars, txVars, jbVars, convVars, urVars, hoVars, tmVars, ariVars>>

InboundFrame ==
    \E rms \in {"zero", "low", "high"} :
        push_pcm(rms, "F1") /\ UNCHANGED <<regVars, txVars, jbVars, convVars, urVars, hoVars, tmVars, ariVars>>

PlaybackGet == playback_get /\ UNCHANGED <<regVars, txVars, jbVars, convVars, urVars, hoVars, tmVars, ariVars>>

NextDlg == Connect \/ WsClosed \/ ForwardPcm
           \/ ResponseCreated \/ AudioDelta \/ SpeechStarted \/ SpeechStopped
           \/ ResponseFinished \/ InboundFrame \/ PlaybackGet

SpecDlg == InitDlg /\ [][NextDlg]_vars

\* The event loop keeps running: some step is taken whenever one is possible
SpecDlgLive == SpecDlg /\ WF_vars(NextDlg)

----------------------------------------------------------------------------
(* The event dispatcher with the events of every response the model has
   created: transcripts, and completions that arrive for a response that is
   no longer the active one or that carry no response id *)

TranscriptDelta ==
    \E id \in ResponseIds \cup {NoId} :
        on_transcript_delta(id) /\ UNCHANGED <<regVars, txVars, jbVars, convVars, urVars, hoVars, tmVars, ariVars>>

TranscriptDone ==
    \E id \in ResponseIds \cup {NoId} :
        on_transcript_done(id) /\ UNCHANGED <<regVars, txVars, jbVars, convVars, urVars, hoVars, tmVars, ariVars>>

ResponseEnded ==
    \E e \in {"response.completed", "response.canceled", "response.error"},
       id \in ResponseIds \cup {NoId} :
        on_response_finished(e, id) /\ UNCHANGED <<regVars, txVars, jbVars, convVars, urVars, hoVars, tmVars, ariVars>>

NextEv == Connect \/ ResponseCreated \/ AudioDelta \/ SpeechStarted \/ SpeechStopped
          \/ TranscriptDelta \/ TranscriptDone \/ ResponseEnded

SpecEv == InitDlg /\ [][NextEv]_vars

----------------------------------------------------------------------------
(* The egress pipeline of one session: dialog client, playback loop,
   OutputBuffer, write_loop *)

InitPlay ==
    /\ InitSession
    /\ write_queue = << >>
    /\ wl = [pc |-> "get", first |-> TRUE, pkt |-> NoPkt]
    /\ ob = OutputBuffer
    /\ fl = << >>
    /\ nchunks = 0
    /\ dlg = [AudioWebSocketClient EXCEPT !.run = "connect"]
    /\ IdleJb
    /\ IdleConv /\ IdleUr /\ IdleHo /\ IdleTm /\ IdleAri

\* _playback_loop takes a chunk of at least DRAIN_CHUNK_SIZE bytes from
\* audio_queue and _flush_batch hands it, resampled from 24 kHz to 8 kHz,
\* to OutputBuffer.add_chunk
PlaybackFlush ==
    \E n \in {x \in ChunkLens : 3 * x >= DRAIN_CHUNK_SIZE} :
        /\ nchunks < MaxPlayChunks
        /\ playback_get /\ add_chunk(n) /\ UNCHANGED <<regVars, jbVars, convVars, urVars, hoVars, tmVars, ariVars>>

\* The events of the server
PlayEvent ==
    \/ Connect \/ ResponseCreated \/ AudioDelta \/ SpeechStarted \/ SpeechStopped
    \/ ResponseFinished

\* The peer's RTP stream: every datagram carries the same PT and SSRC
PlayDatagram ==
    \E d \in {x \in Datagrams : x.len >= 12 /\ x.version = 2 /\ x.hdr.pt = 8} :
        datagram_received(d, TxAddr) /\ UNCHANGED <<txVars, dlgVars, jbVars, convVars, urVars, hoVars, tmVars, ariVars>>

NextPlay == PlayEvent \/ PlaybackFlush \/ OutputLoop \/ WriteLoopGet \/ WriteLoopSend
            \/ PlayDatagram

SpecPlay == InitPlay /\ [][NextPlay]_vars

----------------------------------------------------------------------------
(* A burst of model audio through the egress pipeline of one session *)

\* Lengths in bytes of the audio deltas of a burst, at 24 kHz: one frame of
\* 8 kHz audio and a frame and a half.  Each is at least DRAIN_CHUNK_SIZE, so
\* _playback_loop flushes it as a batch of its own.
BurstLens == { 3 * RTP_FRAME_SIZE, 3 * RTP_FRAME_SIZE + 3 * (RTP_FRAME_SIZE \div 2) }

\* _playback_loop takes an audio delta of the burst and _flush_batch hands
\* it, resampled, to OutputBuffer.add_chunk
BurstFlush ==
    \E n \in BurstLens :
        /\ n >= DRAIN_CHUNK_SIZE
        /\ nchunks < MaxPlayChunks
        /\ playback_get
        /\ add_chunk(resample_audio(n, OPENAI_OUTPUT_RATE, DEFAULT_SAMPLE_RATE))
        /\ UNCHANGED <<regVars, jbVars, convVars, urVars, hoVars, tmVars, ariVars>>

BurstEvent == Connect \/ ResponseCreated \/ AudioDelta

NextBurst == BurstEvent \/ BurstFlush \/ OutputLoop \/ WriteLoopGet \/ WriteLoopSend
             \/ PlayDatagram

SpecBurst == InitPlay /\ [][NextBurst]_vars

\* The event loop runs every task that is ready: the playback loop, the
\* output loop and write_loop.  Nothing obliges the model to send audio.
SpecBurstLive ==
    /\ SpecBurst
    /\ WF_vars(BurstFlush) /\ WF_vars(OutputLoop)
    /\ WF_vars(WriteLoopGet) /\ WF_vars(WriteLoopSend)

----------------------------------------------------------------------------
(* The JitterBuffer of one session and the cleanup of that session *)

InitJb == InitReg /\ IdleTx /\ IdleDlg /\ jb = JitterBuffer /\ jt = NoJbTasks /\ IdleConv /\ IdleUr /\ IdleHo /\ IdleTm /\ IdleAri

JbAddFrame == jb_add_frame /\ UNCHANGED <<regVars, txVars, dlgVars, convVars, urVars, hoVars, tmVars, ariVars>>

JbOutputLoop == jb_emit /\ UNCHANGED <<regVars, txVars, dlgVars, convVars, urVars, hoVars, tmVars, ariVars>>

CleanupJitter == cleanup_jitter /\ UNCHANGED <<regVars, txVars, dlgVars, convVars, urVars, hoVars, tmVars, ariVars>>

JbFlushRun ==
    \E i \in DOMAIN jt.fl : jb_flush_run(i) /\ UNCHANGED <<regVars, txVars, dlgVars, convVars, urVars, hoVars, tmVars, ariVars>>

CleanupReturn == cleanup_return /\ UNCHANGED <<regVars, txVars, dlgVars, convVars, urVars, hoVars, tmVars, ariVars>>

NextJb == JbAddFrame \/ JbOutputLoop \/ CleanupJitter \/ JbFlushRun \/ CleanupReturn

SpecJb == InitJb /\ [][NextJb]_vars

----------------------------------------------------------------------------
(* The datagrams of one session handed to its JitterBuffer *)

InitHo ==
    /\ InitSession /\ IdleTx /\ IdleDlg /\ IdleJb /\ IdleConv /\ IdleUr /\ IdleTm /\ IdleAri
    /\ ho = NoHandoff

HandoffCreate ==
    \E pt \in {h.pt : h \in Headers}, len \in PayloadLens :
        handoff_create(pt, len)
        /\ UNCHANGED <<regVars, txVars, dlgVars, convVars, urVars, tmVars, ariVars>>

HandoffRun ==
    handoff_run /\ UNCHANGED <<regVars, txVars, dlgVars, convVars, urVars, tmVars, ariVars>>

HoOutputLoop == jb_emit /\ UNCHANGED <<regVars, txVars, dlgVars, convVars, urVars, hoVars, tmVars, ariVars>>

NextHo == HandoffCreate \/ HandoffRun \/ HoOutputLoop

SpecHo == InitHo /\ [][NextHo]_vars

----------------------------------------------------------------------------
(* The paced sender of one session against the clock, fed by the
   OutputBuffer and by its flushes *)

InitPace ==
    /\ InitSession
    /\ write_queue = << >>
    /\ wl = [pc |-> "get", first |-> TRUE, pkt |-> NoPkt]
    /\ ob = OutputBuffer
    /\ fl = << >>
    /\ nchunks = 0
    /\ IdleDlg /\ IdleJb /\ IdleConv /\ IdleUr /\ IdleHo /\ IdleAri
    /\ tm = NoClock

Tick ==
    \E d \in TickLens :
        tick(d) /\ UNCHANGED <<regVars, txVars, dlgVars, jbVars, convVars, urVars, hoVars, ariVars>>

PaceGet == pace_get /\ UNCHANGED <<dlgVars, jbVars, convVars, urVars, hoVars, ariVars>>

PaceSend == pace_send /\ UNCHANGED <<dlgVars, jbVars, convVars, urVars, hoVars, ariVars>>

NextPace == Tick \/ PaceGet \/ PaceSend
            \/ AddChunk \/ OutputLoop \/ AhCleanup \/ FlushRun

SpecPace == InitPace /\ [][NextPace]_vars

----------------------------------------------------------------------------
(* The events of the control websocket, handled one after another by
   AriWsHandler.run *)

InitAri ==
    /\ InitReg /\ IdleTx /\ IdleDlg /\ IdleJb /\ IdleConv /\ IdleUr /\ IdleHo /\ IdleTm
    /\ ari = NoAri

StasisStart ==
    \E pjsip \in BOOLEAN, fail \in FailPoints :
        /\ handle_stasis_start(pjsip, fail)
        /\ UNCHANGED <<regVars, txVars, dlgVars, jbVars, convVars, urVars, hoVars, tmVars>>

ChannelEnded ==
    \E k \in DOMAIN ari.calls :
      \E channel_id \in {CallerChannel(k), ExternalChannel(k)} :
        /\ channel_id = ExternalChannel(k) =>
               ari.calls[k].fail \in {"none", "after_maps"}
        /\ cleanup_by_channel(channel_id, k)
        /\ UNCHANGED <<regVars, txVars, dlgVars, jbVars, convVars, urVars, hoVars, tmVars>>

NextAri == StasisStart \/ ChannelEnded

SpecAri == InitAri /\ [][NextAri]_vars

----------------------------------------------------------------------------
(* The three bounded stores of one session filling up: the dialog PCM queue,
   the JitterBuffer and the chunk queue of the OutputBuffer *)

InitOvf ==
    /\ InitSession
    /\ write_queue = << >>
    /\ wl = [pc |-> "get", first |-> TRUE, pkt |-> NoPkt]
    /\ ob = OutputBuffer
    /\ fl = << >>
    /\ nchunks = 0
    /\ dlg = [AudioWebSocketClient EXCEPT !.run = "connect"]
    /\ IdleJb
    /\ IdleConv /\ IdleUr /\ IdleHo /\ IdleTm /\ IdleAri

PushFrame ==
    \E rms \in {"zero", "low", "high"}, data \in PcmFrames :
        push_pcm(rms, data) /\ UNCHANGED <<regVars, txVars, jbVars, convVars, urVars, hoVars, tmVars, ariVars>>

NextOvf == Connect \/ PushFrame \/ ForwardPcm \/ JbAddFrame \/ JbOutputLoop \/ AddChunk

SpecOvf == InitOvf /\ [][NextOvf]_vars

----------------------------------------------------------------------------
(* AudioConverter.resample_audio called on a buffer *)

InitConv ==
    /\ InitReg /\ IdleTx /\ IdleDlg /\ IdleJb /\ IdleUr /\ IdleHo /\ IdleTm /\ IdleAri
    /\ \E n \in 0..MaxPcmBytes, r1 \in Rates, r2 \in Rates :
          conv = [pcm_len |-> n, sr_in |-> r1, sr_out |-> r2,
                  called |-> FALSE, result |-> 0]

Resample ==
    /\ ~conv.called
    /\ conv' = [conv EXCEPT !.called = TRUE,
                            !.result = resample_audio(conv.pcm_len, conv.sr_in, conv.sr_out)]
    /\ UNCHANGED <<regVars, txVars, dlgVars, jbVars, urVars, hoVars, tmVars, ariVars>>

NextConv == Resample

SpecConv == InitConv /\ [][NextConv]_vars

\* The event loop runs every task that is ready: the emission loop wakes from
\* each of its sleeps and a flush() resumes after its sleep.  Nothing obliges
\* a further frame to arrive or the session to be cleaned up.
SpecJbLive == SpecJb /\ WF_vars(JbOutputLoop) /\ WF_vars(JbFlushRun)

----------------------------------------------------------------------------
(* Claims checked under Spec *)

\* C4: once the first datagram of a session has latched inbound_pt and
\* inbound_ssrc, no step changes either value for as long as that session
\* object stays in the registry, whatever PT or SSRC later datagrams carry.
C4_LatchedConstant ==
    [][\A a \in DOMAIN sessions :
          ( /\ a \in DOMAIN sessions'
            /\ sessions'[a].id = sessions[a].id
            /\ sessions[a].inbound_pt # None
            /\ sessions[a].ssrc # None )
          => /\ sessions'[a].inbound_pt = sessions[a].inbound_pt
             /\ sessions'[a].ssrc = sessions[a].ssrc]_vars

\* A later datagram with another PT and another SSRC has been handled by a
\* session that was already latched.
C4_Witness ==
    /\ rx.outcome = "handled"
    /\ ~rx.created
    /\ rx.addr \in DOMAIN sessions
    /\ sessions[rx.addr].id = rx.sid
    /\ sessions[rx.addr].inbound_pt \notin {None, rx.hdr.pt}
    /\ sessions[rx.addr].ssrc \notin {None, rx.hdr.ssrc}

\* C34: the payload of every datagram a session handles is handed to
\* handle_incoming_payload with the session's latched inbound_pt, whatever
\* payload type the datagram itself carries.
C34_HandedLatchedPt ==
    ( /\ rx.outcome = "handled"
      /\ rx.addr \in DOMAIN sessions
      /\ sessions[rx.addr].id = rx.sid )
    => rx.pt = sessions[rx.addr].inbound_pt

\* C38: every address that has an entry in uuid_mapping has a session in
\* the registry, and that session's session_uuid is the mapped id.
C38_MappingMatchesSession ==
    \A a \in DOMAIN uuid_mapping :
        a \in DOMAIN sessions /\ sessions[a].session_uuid = uuid_mapping[a]

\* C5: at every reachable state at most one session that has been created
\* and not yet destroyed is bound to any peer address, and it is the one the
\* registry holds for that address.
C5_OneSessionPerAddr ==
    /\ \A a \in Addrs : Cardinality({o \in alive : o.addr = a}) <= 1
    /\ alive = {[id |-> sessions[a].id, addr |-> a] : a \in DOMAIN sessions}

\* A second session lives at an address whose first session was destroyed,
\* and /register has since found it there.
C5_Witness ==
    /\ nobj = 2
    /\ http.op = "register" /\ http.existed
    /\ alive = {[id |-> 2, addr |-> http.addr]}

\* C7: after a successful POST /register for an address that had no session,
\* the registry holds a session for the address with the supplied id and
\* exactly one 160-byte priming packet has been sent to the address.
C7_RegisterPrimes ==
    (http.op = "register" /\ http.status = 200 /\ ~http.existed)
    => /\ http.addr \in DOMAIN sessions
       /\ sessions[http.addr].session_uuid = http.uuid
       /\ Len(SelectSeq(wire, LAMBDA p : p.to = http.addr /\ p.len = 160)) = 1

\* C8: registering an address that already has a session creates no session
\* and sends nothing, leaves the session's id equal to the registered id, and
\* registering the same (ip, port, session_uuid) twice gives the state that
\* registering it once gives.
C8_RegisterIdempotent ==
    \A a \in Addrs, u \in RegIds :
        LET once  == register_session_uuid(RegState, a, u)
            twice == register_session_uuid(once, a, u)
        IN  /\ twice = once
            /\ once.sessions[a].session_uuid = u
            /\ a \in DOMAIN sessions =>
                  /\ once.nobj = nobj
                  /\ once.alive = alive
                  /\ once.wire = wire
                  /\ DOMAIN once.sessions = DOMAIN sessions
                  /\ once.sessions[a].id = sessions[a].id

\* /register has run for an address that had a session with another id.
C8_Witness ==
    /\ http.op = "register" /\ http.status = 200 /\ http.existed
    /\ http.addr \in DOMAIN uuid_mapping
    /\ uuid_mapping[http.addr] # http.uuid
    /\ sessions[http.addr].session_uuid = http.uuid

\* C9: a datagram from an address registered with id A, and not unregistered
\* since, is handled by a session whose session_id is A; a datagram that
\* creates the session of an address without a registration gives it a
\* freshly generated id, shared with no other session.
C9_RegisteredIdHandles ==
    rx.outcome = "handled" =>
        /\ rx.reg # NoUuid => rx.uuid = rx.reg
        /\ (rx.created /\ rx.reg = NoUuid) =>
              /\ rx.uuid = GenIds[rx.sid]
              /\ rx.uuid \notin RegIds

\* A datagram has been handled under id A by a session that was created by
\* an earlier datagram and registered afterwards.
C9_Witness ==
    /\ rx.outcome = "handled"
    /\ rx.reg = "A" /\ rx.uuid = "A"
    /\ rx.addr \notin DOMAIN uuid_mapping

\* C10: POST /unregister answers 404 exactly when no session had the id, and
\* then removes nothing; otherwise it answers 200 with removed_count equal to
\* the number of sessions it removed from the registry.
C10_UnregisterStatus ==
    (http.op = "unregister" /\ http.status # 400) =>
        /\ http.status = 404 <=> http.found = 0
        /\ http.status = 200 => http.removed_count = http.found

----------------------------------------------------------------------------
(* Claims checked under SpecUnreg *)

\* C26: an /unregister is never answered with a failure and never leaves in
\* the registry a session it has cleaned up: no other handler changes the
\* registry while the traversal is suspended.
C26_TraversalExclusive ==
    ur.pc = "done" =>
        /\ ur.status # 500
        /\ \A o \in ur.cleaned :
              ~(o.addr \in DOMAIN sessions /\ sessions[o.addr].id = o.id)

\* C27: a step taken for one session leaves every other session's record
\* as it was (a step changes the records of several addresses only when it
\* is the removal of the sessions one /unregister has collected), and no
\* step taken for another session keeps an /unregister from removing the
\* sessions it has collected: when its traversal ends they are gone.
C27_SessionsIsolated ==
    [][ /\ LET changed == {a \in Addrs :
                    \/ (a \in DOMAIN sessions) # (a \in DOMAIN sessions')
                    \/ /\ a \in DOMAIN sessions /\ a \in DOMAIN sessions'
                       /\ sessions'[a] # sessions[a]}
           IN  Cardinality(changed) > 1 => changed \subseteq ur.to_remove
        /\ (ur.pc = "await" /\ ur'.pc = "done") =>
               \A a \in ur.to_remove : a \notin DOMAIN sessions' ]_vars

----------------------------------------------------------------------------
(* Claims checked under SpecTx *)

\* C1: any two RTP packets the paced sender emits consecutively for a
\* session satisfy seq(p2) = (seq(p1) + 1) mod 2^16, over any interleaving
\* with inbound datagrams, the first one included.
C1_SeqConsecutive ==
    \A i \in 1..(Len(wire) - 1) :
        wire[i + 1].seq = (wire[i].seq + 1) % 65536

\* C2: any two RTP packets the paced sender emits consecutively satisfy
\* ts(p2) = (ts(p1) + 160) mod 2^32.
C2_TsConsecutive ==
    \A i \in 1..(Len(wire) - 1) :
        wire[i + 1].ts = TsAdd(wire[i].ts, 160)

\* C3: every RTP packet the paced sender emits carries 160 bytes of payload:
\* every frame the output buffer hands to the sender, from its emission loop
\* or from a flush, is a complete 320-byte frame.
C3_PayloadSize ==
    /\ \A i \in DOMAIN write_queue : write_queue[i] = RTP_FRAME_SIZE
    /\ wl.pc = "send" => wl.pkt.len = 160
    /\ \A i \in DOMAIN wire : wire[i].len = 160

\* Three chunks whose lengths add up to no multiple of 320 have been
\* accepted, the buffer has been stopped and flushed, every flush has ended
\* and the sender has sent all it was handed.
C3_Witness ==
    /\ nchunks = 3
    /\ ob.cleaned /\ fl = << >> /\ ob.buffer = << >>
    /\ write_queue = << >> /\ wl.pc = "get"
    /\ Len(wire) >= 2

----------------------------------------------------------------------------
(* Claims checked under SpecDlg *)

\* C6: after every processed server event or inbound frame,
\* active_response_id is non-empty if and only if dialog_state, as the event
\* table defines it, is ModelSpeaking.
C6_ActiveIffModelSpeaking ==
    (dlg.active_response_id # NoId) <=> (dlg.dialog_state = "ModelSpeaking")

\* C33: once the output buffer has been stopped and its flushes have ended,
\* every complete frame of the audio it accepted (none of it dropped by an
\* overflow) has been handed to the sender: less than RTP_FRAME_SIZE bytes
\* were discarded.
C33_FlushDeliversFrames ==
    (ob.cleaned /\ fl = << >> /\ ob.task # "run" /\ ~ob.overflowed) =>
        LET emitted == Len(write_queue) + Len(wire) + (IF wl.pc = "send" THEN 1 ELSE 0)
        IN  ob.in_bytes - RTP_FRAME_SIZE * emitted < RTP_FRAME_SIZE

\* C37: all the packets the paced sender of a session has sent carry one
\* SSRC and one payload type, the packets sent before the first inbound
\* datagram included.
C37_OneSsrcOnePt ==
    \A i \in DOMAIN wire, j \in DOMAIN wire :
        (wire[i].by = "write_loop" /\ wire[j].by = "write_loop")
        => (wire[i].ssrc = wire[j].ssrc /\ wire[i].pt = wire[j].pt)

\* C28: each outbound RTP header carries the value ts_out had before the
\* samples of that packet were added: whenever write_loop takes a frame and
\* builds a packet, the packet's timestamp is ts_out as it was when the frame
\* was taken.
C28_HeaderCarriesTsBefore ==
    [][ (/\ wl.pc = "get" /\ write_queue # << >>
         /\ write_queue' = Tail(write_queue)
         /\ (wire' # wire \/ wl'.pc = "send"))
        => (IF wire' # wire THEN wire'[Len(wire')].ts ELSE wl'.pkt.ts)
               = sessions[TxAddr].ts_out ]_vars

----------------------------------------------------------------------------
(* Claims checked under SpecDlg and SpecDlgLive *)

\* C13: once the dialog websocket could not be established, or has closed,
\* the session is eventually removed from the session registry without any
\* /unregister call.
C13_DestroyedOnWsLoss ==
    (dlg.run = "ended" \/ dlg.receive = "ended") ~> (TxAddr \notin DOMAIN sessions)

\* C14: when BARGE_IN_FRAMES_THRESHOLD inbound frames in a row with RMS at or
\* above the threshold have been processed, each with an active response,
\* then after the last of them playback is interrupted, active_response_id
\* is empty and consecutive_high_rms is 0.
C14_BargeInTriggers ==
    (dlg.last \in {"frame", "local_barge_in"} /\ dlg.hi_run >= BARGE_IN_FRAMES_THRESHOLD)
    => /\ dlg.active_response_id = NoId
       /\ dlg.consecutive_high_rms = 0
       /\ ~dlg.running /\ dlg.audio_queue = 0

\* C31: processing an inbound frame whose RMS is below VAD_RMS_THRESHOLD,
\* an all-zero frame (RMS 0) included, leaves consecutive_high_rms at 0.
C31_LowFrameResetsCounter ==
    [][ (\E data \in PcmFrames : push_pcm("zero", data) \/ push_pcm("low", data))
            => dlg'.consecutive_high_rms = 0 ]_vars

\* C32: the local barge-in interrupts playback only while a response is
\* active: a high-RMS frame processed while active_response_id is empty
\* never triggers the interrupt.
C32_BargeInOnlyWhileSpeaking ==
    [][ ((\E data \in PcmFrames : push_pcm("high", data))
            /\ dlg'.last = "local_barge_in")
            => dlg.active_response_id # NoId ]_vars

\* C16: an audio delta is enqueued only if its response id equals
\* active_response_id at the moment it is processed; with no active response
\* it is dropped.
C16_DeltaOnlyForActive ==
    (dlg.last = "response.audio.delta" /\ dlg.delta.enqueued)
    => dlg.delta.id = dlg.delta.active

----------------------------------------------------------------------------
(* Claims checked under SpecEv *)

\* C29: after a response.completed, response.canceled or response.error is
\* processed, active_response_id is empty, whatever response id the event
\* carries.
C29_FinishClearsActive ==
    dlg.last \in {"response.completed", "response.canceled", "response.error"}
        => dlg.active_response_id = NoId

\* C30: after a response.completed, response.canceled or response.error for
\* response R is processed, no transcript buffer for R remains.
C30_TranscriptDropped ==
    (dlg.last \in {"response.completed", "response.canceled", "response.error"}
        /\ dlg.fin # NoId)
        => dlg.fin \notin dlg.transcript_buffers

----------------------------------------------------------------------------
(* Claims checked under SpecPlay *)

\* C15: right after an egress interrupt (speech_started, local barge-in, a
\* switch to a new response) the playback queue of the audio handler, the
\* chunk queue of the output buffer and its byte accumulator are all empty.
C15_InterruptDrains ==
    dlg.last \in {"input_audio_buffer.speech_started", "local_barge_in",
                  "response.switched"}
    => /\ dlg.audio_queue = 0
       /\ ob.buffer = << >>
       /\ ob.pending = 0

\* C17: an egress interrupt leaves the paced sender running, and the first
\* packet sent after an interrupt carries the sequence number that follows
\* the last packet sent before it.
C17_SenderSurvivesInterrupt ==
    dlg.cut # None =>
        /\ wl.pc \in {"get", "send"}
        /\ (dlg.cut >= 1 /\ Len(wire) > dlg.cut)
           => wire[dlg.cut + 1].seq = (wire[dlg.cut].seq + 1) % 65536

\* C24: the queue feeding the paced sender and the playback queue of the
\* audio handler never hold more entries than the maximum of the buffers
\* (OUTPUT_BUFFER_MAX_FRAMES), whatever the rate of the audio deltas.
C24_QueuesBounded ==
    /\ Len(write_queue) <= OUTPUT_BUFFER_MAX_FRAMES
    /\ dlg.audio_queue <= OUTPUT_BUFFER_MAX_FRAMES

----------------------------------------------------------------------------
(* Claims checked under SpecJb *)

\* C11: when the cleanup that POST /unregister awaits has returned, the
\* session's jitter-buffer emission loop and every flush task started by
\* stop() have terminated.
C11_TeardownComplete ==
    jt.cleanup = "returned" => (jb.output_task # "run" /\ jt.fl = << >>)

\* C19: the frames the jitter buffer hands to its output callback, whoever
\* hands them over (emission loop, flush(), flush task of stop()), are
\* accepted frames in acceptance order, none twice; while nothing has been
\* dropped the k-th delivered frame is the k-th accepted frame.
C19_DeliveredInOrder ==
    /\ \A k \in DOMAIN jb.delivered : jb.delivered[k] \in 1..jb.total_frames_received
    /\ \A k \in 1..(Len(jb.delivered) - 1) : jb.delivered[k] < jb.delivered[k + 1]
    /\ jb.dropped = 0 => \A k \in DOMAIN jb.delivered : jb.delivered[k] = k
    /\ jb.total_frames_output = Len(jb.delivered)

\* Frames were delivered by the emission loop, by the flush cleanup awaits
\* and by the flush task of stop(), after an overflow, and cleanup returned.
C19_Witness ==
    /\ jb.by = {"loop", "flush", "task"}
    /\ jb.dropped > 0
    /\ Len(jb.delivered) >= 3
    /\ jt.cleanup = "returned"

\* C20: the jitter buffer never holds more than JITTER_BUFFER_MAX_FRAMES
\* frames, what it holds are the newest accepted frames not yet delivered,
\* in order, and the number of frames dropped is held by a counter of the
\* buffer.
C20_OverflowDropsOldest ==
    /\ Len(jb.buffer) <= JITTER_BUFFER_MAX_FRAMES
    /\ \A k \in DOMAIN jb.buffer :
          jb.buffer[k] = jb.total_frames_received - Len(jb.buffer) + k
    /\ jb.dropped > 0 => jb.dropped \in JbCounters(jb)

----------------------------------------------------------------------------
(* Claims checked under SpecPace *)

C39_NoRestartAfterCleanup ==
    /\ (jt.cleanup # "idle") => jb.output_task # "run"
    /\ (jt.cleanup = "returned") => jt.fl = << >>

----------------------------------------------------------------------------
(* Claims checked under SpecAri *)

\* C40: once a channel-ended event for a channel of a call has been handled,
\* the adapter holds no channel_to_bridge entry for either channel of the
\* call and no session_channels entry for it; and once the caller's channel
\* has ended, the bridge created for the call is deleted, also when the
\* handling of its StasisStart had failed.
C40_CallForgotten ==
    \A k \in DOMAIN ari.calls :
        /\ (ari.calls[k].ended # {}) =>
              /\ CallerChannel(k) \notin DOMAIN ari.channel_to_bridge
              /\ ExternalChannel(k) \notin DOMAIN ari.channel_to_bridge
              /\ k \notin DOMAIN ari.session_channels
        /\ (CallerChannel(k) \in ari.calls[k].ended) => k \notin ari.bridges

----------------------------------------------------------------------------
(* Claims checked under SpecHo *)

\* C35: the payloads of a session enter its jitter buffer in the order in
\* which datagram_received was called for their datagrams, although each is
\* handed over by a task of its own: a payload enters only after every
\* earlier datagram's payload has entered or been refused.
C35_HandoffInOrder ==
    /\ \A i \in DOMAIN ho.entered :
          /\ \A j \in DOMAIN ho.entered : i < j => ho.entered[i] < ho.entered[j]
          /\ \A k \in 1..ho.entered[i] :
                k \in ho.rejected \/ \E j \in 1..i : ho.entered[j] = k
    /\ jb.total_frames_received = Len(ho.entered)

\* Two payloads have entered the jitter buffer, one of them by a task that
\* ran while the task of a later datagram was waiting
C35_Witness ==
    /\ Len(ho.entered) >= 2
    /\ ho.overtaken
    /\ ho.rejected # {}

----------------------------------------------------------------------------
(* Claims checked under SpecJbLive *)

\* C21: a frame held by the jitter buffer eventually leaves it (delivered to
\* the output callback, or removed by overflow) while the session stays
\* open, that is unless cleanup begins, even if no further frame arrives.
C21_AcceptedEventuallyDelivered ==
    \A f \in 1..MaxFrames :
        (\E k \in DOMAIN jb.buffer : jb.buffer[k] = f)
            ~> (\/ ~(\E k \in DOMAIN jb.buffer : jb.buffer[k] = f)
                \/ jt.cleanup # "idle")

----------------------------------------------------------------------------
(* Claims checked under SpecBurstLive *)

----------------------------------------------------------------------------
(* Claims checked under SpecOvf *)

\* C25: the dialog PCM queue never holds more than its maximum; it changes
\* only by a frame appended while it is not full or by frames taken from its
\* head, so a push on a full queue discards the pushed frame and leaves the
\* queued frames as they are; add_frame and add_chunk on a full buffer
\* discard the oldest entry and keep the incoming one.
C25_OverflowPolicies ==
    [][ /\ Len(dlg'.pcm_queue) <= MaxPcmQueue
        /\ dlg'.pcm_queue # dlg.pcm_queue =>
              \/ /\ Len(dlg.pcm_queue) < MaxPcmQueue
                 /\ \E x \in PcmFrames : dlg'.pcm_queue = Append(dlg.pcm_queue, x)
              \/ \E k \in 1..Len(dlg.pcm_queue) :
                    dlg'.pcm_queue = SubSeq(dlg.pcm_queue, k + 1, Len(dlg.pcm_queue))
        /\ jb'.total_frames_received = jb.total_frames_received + 1 =>
              jb'.buffer = Append(IF Len(jb.buffer) >= JITTER_BUFFER_MAX_FRAMES
                                  THEN Tail(jb.buffer) ELSE jb.buffer,
                                  jb'.total_frames_received)
        /\ nchunks' = nchunks + 1 =>
              \E x \in ChunkLens :
                  ob'.buffer = Append(IF Len(ob.buffer) >= OUTPUT_BUFFER_MAX_FRAMES
                                      THEN Tail(ob.buffer) ELSE ob.buffer, x) ]_vars

\* Each of the three stores has overflowed: the PCM queue is full of the
\* frames pushed first and has dropped a later one, the jitter buffer and
\* the output buffer have dropped their oldest entry.
C25_Witness ==
    /\ dlg.pcm_dropped /\ Len(dlg.pcm_queue) = MaxPcmQueue /\ dlg.pcm_queue[1] = "F1"
    /\ jb.dropped > 0 /\ Len(jb.buffer) = JITTER_BUFFER_MAX_FRAMES
    /\ ob.overflowed /\ Len(ob.buffer) = OUTPUT_BUFFER_MAX_FRAMES

----------------------------------------------------------------------------
(* Claims checked under SpecConv *)

\* C23: resample_audio on N samples returns floor(N * rate_out / rate_in)
\* samples for 8000 -> 24000 and 24000 -> 8000, for every N of the range, and
\* an output as long as the input when rate_in = rate_out.
C23_ResampleLength ==
    (conv.called /\ conv.pcm_len % DEFAULT_SAMPLE_WIDTH = 0) =>
        LET N == conv.pcm_len \div DEFAULT_SAMPLE_WIDTH
        IN  conv.result = DEFAULT_SAMPLE_WIDTH * ((N * conv.sr_out) \div conv.sr_in)

====
